---- MODULE Spec2Model ----
(***************************************************************************)
(* AoC Companion: the Session Coordinator (App), the AI Session Gateway    *)
(* (geminiService), the Diagram Renderer (MermaidChart) and its repair     *)
(* pass, as state machines.                                                *)
(*                                                                         *)
(* JavaScript scheduling: every handler, timer callback and network        *)
(* resolution is a task that runs to its first real suspension point; the  *)
(* continuation of an await on an already settled promise is a microtask   *)
(* and runs before any other task (variable micro).                        *)
(***************************************************************************)
EXTENDS Integers, Sequences, FiniteSets, TLC

VARIABLES
    mounted,          \* the App component has mounted (effects have run)
    messages,         \* App: transcript
    inputValue,       \* App: text of the input box
    isLoading,        \* App: Busy
    isInitialized,    \* App: Ready
    isContextLoading, \* App: ContextLoading
    appState,         \* App: configuration
    apiKey,           \* process.env.API_KEY is set
    chatSession,      \* geminiService: live session handle, Null when none
    nextHandle,       \* the handle the next chats.create returns
    micro,            \* pending microtask continuation, NoMicro when none
    sends,            \* chatSession.sendMessage calls of sendMessageToGemini in flight
    nSends,           \* number of handleSendMessage calls that passed the guard
    fetches,          \* generateContent calls of fetchPuzzleFromAoC in flight
    nFetches,         \* number of fetchPuzzleFromAoC calls made
    keyReqs,          \* openSelectKey calls in flight
    ctxCalls,         \* chatSession.sendMessage calls of updateSystemContext in flight
    nCtx,             \* number of updateSystemContext calls made
    fetchTimers,      \* pending 800 ms timers of the year/day effect
    ctxTimers,        \* pending 1000 ms timers of the context effect
    unhandled,        \* a promise was rejected and nobody handles it
    now,              \* the last value Date.now() returned
    returned,         \* geminiService: calls made from outside App that have settled
    budget,           \* user actions, timer firings and clock ticks the run may still take
    editedAt,         \* nFetches when the user last typed into the Puzzle Context textarea
    chart,            \* MermaidChart: the chart prop of each diagram block
    svg,              \* MermaidChart: rendered output of each block
    error,            \* MermaidChart: failed flag of each block
    isProcessing,     \* MermaidChart: processing flag of each block
    idRef,            \* MermaidChart: idRef.current of each block
    epoch,            \* MermaidChart: number of the block's current run of the render effect
    renderTimers,     \* pending 600 ms timers of the render effect
    renders,          \* mermaid.render calls in flight
    nRenders,         \* number of mermaid.render calls made
    usedIds,          \* identifiers passed to mermaid.render so far
    budgetUpdate,     \* changes of a chart prop the run may still take
    budgetRetry,      \* clicks on Retry the run may still take
    src,              \* repair pass: the diagram source
    out,              \* repair pass: the patched source
    patched           \* repair pass: has run

coordVars == <<mounted, messages, inputValue, isLoading, isInitialized,
               isContextLoading, appState, apiKey, chatSession, nextHandle, micro,
               sends, nSends, fetches, nFetches, keyReqs, ctxCalls, nCtx,
               fetchTimers, ctxTimers, unhandled, now, returned, budget, editedAt>>

chartVars == <<chart, svg, error, isProcessing, idRef, epoch, renderTimers, renders,
               nRenders, usedIds, budgetUpdate, budgetRetry>>

patchVars == <<src, out, patched>>

vars == <<coordVars, chartVars, patchVars>>

(***************************************************************************)
(* Bounds                                                                  *)
(***************************************************************************)
MaxOps == 4
MaxCalls == 3
MaxLiveOps == 2
MaxUpdate == 2
MaxRetry == 1
MaxLen == 4

(***************************************************************************)
(* Values                                                                  *)
(***************************************************************************)
Null == 0
NoMicro == [k |-> "none"]

USER == "user"
AI == "ai"
SYSTEM == "system"

Years == {"2025", "2024"}
Days == {"9", "10"}
Languages == {"Python", "Rust"}
HintLevels == {"Logic/Algorithm", "Vague Hint"}
Inputs == {"", " ", "hi"}
TypedContexts == {"my notes"}

InitialAppState ==
    [year |-> "2025", day |-> "9", language |-> "Python",
     hintLevel |-> "Logic/Algorithm", puzzleContext |-> ""]

\* String.prototype.trim on the inputs of the model
Trim(s) == IF s = " " THEN "" ELSE s

\* the summary the backend writes for a puzzle
Summary(year, day) == "summary " \o year \o "/" \o day

(***************************************************************************)
(* Messages                                                                *)
(***************************************************************************)
Message(id, text, sender, timestamp) ==
    [id |-> id, text |-> text, sender |-> sender, timestamp |-> timestamp]

\* the welcome text without the language
WelcomeText_NoLanguage(s) ==
    [kind |-> "welcome", year |-> s.year, day |-> s.day, language |-> ""]

WelcomeText(s) ==
    [kind |-> "welcome", year |-> s.year, day |-> s.day, language |-> s.language]

InitErrorText == [kind |-> "initError"]

ResetText(s) == [kind |-> "reset", year |-> s.year, day |-> s.day]

KeyUpdatedText == [kind |-> "keyUpdated"]

UserText(body) == [kind |-> "user", body |-> body]

\* sendMessageToGemini with a catch block that returns nothing
ReplyText_NoErrorText(s, outcome) ==
    CASE outcome = "text" -> [kind |-> "reply", send |-> s.n, handle |-> s.handle]
      [] outcome = "empty" -> [kind |-> "noResponse"]
      [] outcome = "error" -> [kind |-> "undefined"]

\* what sendMessageToGemini returns for the outcome of the backend call on
\* send s: the text of the response (with its sources, when it has some), a
\* fixed text when the response is empty, a fixed text when the call fails
ReplyText(s, outcome) ==
    CASE outcome = "text" -> [kind |-> "reply", send |-> s.n, handle |-> s.handle]
      [] outcome = "empty" -> [kind |-> "noResponse"]
      [] outcome = "error" -> [kind |-> "commError"]

SendOutcomes == {"text", "empty", "error"}

\* what fetchPuzzleFromAoC returns for the outcome of the backend call
\* fetchPuzzleFromAoC returning result.text as it is
FetchText_NoFallback(f, outcome) ==
    CASE outcome = "text" -> Summary(f.year, f.day)
      [] outcome = "empty" -> ""
      [] outcome = "error" -> "Error fetching puzzle description from AoC."

FetchText(f, outcome) ==
    CASE outcome = "text" -> Summary(f.year, f.day)
      [] outcome = "empty" -> "Could not retrieve puzzle description."
      [] outcome = "error" -> "Error fetching puzzle description from AoC."

FetchOutcomes == {"text", "empty", "error"}

\* the step takes cost units of the run's budget
Spend(cost) ==
    /\ budget >= cost
    /\ budget' = budget - cost

\* Date.now() returns t, a value not before the last one, in a step that takes
\* cost units of the budget; a millisecond that has passed takes one more
ClockReadings(cost) == now .. (now + (IF budget > cost THEN 1 ELSE 0))

DateNow(t, cost) ==
    /\ now' = t
    /\ Spend(cost + (t - now))

(***************************************************************************)
(* Effects of App: what a render does to the timers when dependencies      *)
(* change.  The cleanup of the previous run cancels its timer.             *)
(***************************************************************************)
\* the year/day effect without the clearTimeout of its cleanup
FetchEffect_NoCleanup(old, new, timers) ==
    IF old.year # new.year \/ old.day # new.day
    THEN timers \cup {[year |-> new.year, day |-> new.day]}
    ELSE timers

FetchEffect(old, new, timers) ==
    IF old.year # new.year \/ old.day # new.day
    THEN {[year |-> new.year, day |-> new.day]}
    ELSE timers

\* the context effect without the clearTimeout of its cleanup
ContextEffect_NoCleanup(old, new, oldInit, newInit, timers) ==
    IF old # new \/ oldInit # newInit
    THEN (IF newInit THEN timers \cup {new} ELSE timers)
    ELSE timers

ContextEffect(old, new, oldInit, newInit, timers) ==
    IF old # new \/ oldInit # newInit
    THEN (IF newInit THEN {new} ELSE {})
    ELSE timers

(***************************************************************************)
(* Init: the component before it is mounted                                *)
(***************************************************************************)
CoordInit(ops) ==
    /\ mounted = FALSE
    /\ messages = <<>>
    /\ inputValue = ""
    /\ isLoading = FALSE
    /\ isInitialized = FALSE
    /\ isContextLoading = FALSE
    /\ appState = InitialAppState
    /\ apiKey \in BOOLEAN
    /\ chatSession = Null
    /\ nextHandle = 1
    /\ micro = NoMicro
    /\ sends = {}
    /\ nSends = 0
    /\ fetches = {}
    /\ nFetches = 0
    /\ keyReqs = 0
    /\ ctxCalls = {}
    /\ nCtx = 0
    /\ fetchTimers = {}
    /\ ctxTimers = {}
    /\ unhandled = FALSE
    /\ now = 0
    /\ returned = {}
    /\ budget = ops
    /\ editedAt = 0


(***************************************************************************)
(* geminiService.initializeChat: key is whether process.env.API_KEY is     *)
(* set, createOk whether the SDK builds the session without throwing.      *)
(* Runs synchronously; InitializeChatSucceeds is its return value.         *)
(***************************************************************************)
InitializeChatSucceeds(key, createOk) == key /\ createOk

\* a variant that reports success without keeping the session it built
initializeChat_NoStore(key, createOk) ==
    UNCHANGED <<chatSession, nextHandle>>

initializeChat(key, createOk) ==
    IF InitializeChatSucceeds(key, createOk)
    THEN /\ chatSession' = nextHandle
         /\ nextHandle' = nextHandle + 1
    ELSE UNCHANGED <<chatSession, nextHandle>>

\* a task may start only when the component is mounted and no microtask is pending
Idle == mounted /\ micro = NoMicro

(***************************************************************************)
(* Mount: the three effects run for the first time                         *)
(***************************************************************************)
Mount ==
    /\ ~mounted
    /\ mounted' = TRUE
    /\ fetchTimers' = {[year |-> appState.year, day |-> appState.day]}
    /\ ctxTimers' = IF isInitialized THEN {appState} ELSE {}
    /\ \E createOk \in BOOLEAN :
         /\ initializeChat(apiKey, createOk)
         /\ micro' = [k |-> "init", success |-> InitializeChatSucceeds(apiKey, createOk)]
    /\ UNCHANGED <<messages, inputValue, isLoading, isInitialized,
                   isContextLoading, appState, apiKey, sends, nSends, fetches,
                   nFetches, keyReqs, ctxCalls, nCtx, unhandled, now, returned,
                   budget, editedAt, chartVars, patchVars>>

\* continuation of init() after await initializeChat
InitResume ==
    /\ micro.k = "init"
    /\ micro' = NoMicro
    /\ \E t \in ClockReadings(0) :
         /\ DateNow(t, 0)
         /\ IF micro.success
            THEN /\ isInitialized' = TRUE
                 /\ messages' = <<Message("init", WelcomeText(appState), AI, t)>>
            ELSE /\ isInitialized' = isInitialized
                 /\ messages' = <<Message("error", InitErrorText, SYSTEM, t)>>
    /\ ctxTimers' = ContextEffect(appState, appState, isInitialized, isInitialized', ctxTimers)
    /\ UNCHANGED <<mounted, inputValue, isLoading, isContextLoading, appState,
                   apiKey, chatSession, nextHandle, sends, nSends, fetches,
                   nFetches, keyReqs, ctxCalls, nCtx, fetchTimers, unhandled,
                   returned, editedAt, chartVars, patchVars>>

(***************************************************************************)
(* handleSendMessage up to its await, called with input in the input box   *)
(* (setInputValue(input) by the box's onChange, then the form's onSubmit).  *)
(* The handler is its own gate: the disabled attributes of the box and the *)
(* button are not relied on.                                               *)
(***************************************************************************)
\* the guard without its isLoading conjunct
SendGuard_NoBusyCheck(input) == Trim(input) # "" /\ isInitialized

SendGuard(input) == Trim(input) # "" /\ ~isLoading /\ isInitialized

handleSendMessage(input) ==
    /\ Idle
    /\ IF ~SendGuard(input)
       THEN /\ inputValue' = input
            /\ UNCHANGED <<messages, isLoading, micro, sends, nSends, budget, now>>
       ELSE /\ budget > 0
            /\ inputValue' = ""
            /\ \E t \in ClockReadings(1) :
                 /\ DateNow(t, 1)
                 /\ messages' = Append(messages,
                                       Message(ToString(t), UserText(Trim(input)), USER, t))
            /\ isLoading' = TRUE
            /\ nSends' = nSends + 1
            /\ IF chatSession = Null
               THEN /\ micro' = [k |-> "sendThrow"]
                    /\ sends' = sends
               ELSE /\ sends' = sends \cup {[n |-> nSends + 1, handle |-> chatSession,
                                            text |-> Trim(input)]}
                    /\ micro' = micro
    /\ UNCHANGED <<mounted, isInitialized, isContextLoading, appState, apiKey,
                   chatSession, nextHandle, fetches, nFetches, keyReqs, ctxCalls,
                   nCtx, fetchTimers, ctxTimers, unhandled, returned, editedAt,
                   chartVars, patchVars>>

\* the continuation of handleSendMessage without its finally block
SendResolve_NoFinally(s, outcome) ==
    /\ Idle
    /\ s \in sends
    /\ sends' = sends \ {s}
    /\ \E t \in ClockReadings(0) :
         /\ DateNow(t, 0)
         /\ messages' = Append(messages,
                               Message(ToString(t + 1), ReplyText(s, outcome), AI, t))
    /\ UNCHANGED <<mounted, inputValue, isLoading, isInitialized, isContextLoading,
                   appState, apiKey, chatSession, nextHandle, micro, nSends,
                   fetches, nFetches, keyReqs, ctxCalls, nCtx, fetchTimers,
                   ctxTimers, unhandled, returned, editedAt, chartVars, patchVars>>

\* the backend call of sendMessageToGemini settles; handleSendMessage resumes
SendResolve(s, outcome) ==
    /\ Idle
    /\ s \in sends
    /\ sends' = sends \ {s}
    /\ \E t \in ClockReadings(0) :
         /\ DateNow(t, 0)
         /\ messages' = Append(messages,
                               Message(ToString(t + 1), ReplyText(s, outcome), AI, t))
    /\ isLoading' = FALSE
    /\ UNCHANGED <<mounted, inputValue, isInitialized, isContextLoading, appState,
                   apiKey, chatSession, nextHandle, micro, nSends, fetches,
                   nFetches, keyReqs, ctxCalls, nCtx, fetchTimers, ctxTimers,
                   unhandled, returned, editedAt, chartVars, patchVars>>

\* sendMessageToGemini threw "Chat session not initialized": catch, finally
SendThrowResume ==
    /\ micro.k = "sendThrow"
    /\ micro' = NoMicro
    /\ isLoading' = FALSE
    /\ UNCHANGED <<mounted, messages, inputValue, isInitialized, isContextLoading,
                   appState, apiKey, chatSession, nextHandle, sends, nSends,
                   fetches, nFetches, keyReqs, ctxCalls, nCtx, fetchTimers,
                   ctxTimers, unhandled, now, returned, budget, editedAt,
                   chartVars, patchVars>>

(***************************************************************************)
(* handleResetChat                                                         *)
(***************************************************************************)
handleResetChat ==
    /\ Idle
    /\ Spend(1)
    /\ messages' = <<>>
    /\ isLoading' = TRUE
    /\ \E createOk \in BOOLEAN : initializeChat(apiKey, createOk)
    /\ micro' = [k |-> "reset"]
    /\ UNCHANGED <<mounted, inputValue, isInitialized, isContextLoading, appState,
                   apiKey, sends, nSends, fetches, nFetches, keyReqs, ctxCalls,
                   nCtx, fetchTimers, ctxTimers, unhandled, now, returned,
                   editedAt, chartVars, patchVars>>

\* handleResetChat after await initializeChat
ResetResume ==
    /\ micro.k = "reset"
    /\ micro' = NoMicro
    /\ \E t \in ClockReadings(0) :
         /\ DateNow(t, 0)
         /\ messages' = <<Message(ToString(t), ResetText(appState), AI, t)>>
    /\ isLoading' = FALSE
    /\ UNCHANGED <<mounted, inputValue, isInitialized, isContextLoading, appState,
                   apiKey, chatSession, nextHandle, sends, nSends, fetches,
                   nFetches, keyReqs, ctxCalls, nCtx, fetchTimers, ctxTimers,
                   unhandled, returned, editedAt, chartVars, patchVars>>

(***************************************************************************)
(* handleUpdateApiKey; hasAistudio is whether window.aistudio exists       *)
(***************************************************************************)
handleUpdateApiKey(hasAistudio) ==
    /\ Idle
    /\ IF hasAistudio
       THEN /\ Spend(1)
            /\ keyReqs' = keyReqs + 1
       ELSE UNCHANGED <<budget, keyReqs>>
    /\ UNCHANGED <<mounted, messages, inputValue, isLoading, isInitialized,
                   isContextLoading, appState, apiKey, chatSession, nextHandle,
                   micro, sends, nSends, fetches, nFetches, ctxCalls, nCtx,
                   fetchTimers, ctxTimers, unhandled, now, returned, editedAt,
                   chartVars, patchVars>>

KeyOutcomes == {"selected", "dismissed", "rejected"}

\* openSelectKey settles: a key was selected, the dialog was closed, or it threw
KeyResolve(outcome) ==
    /\ Idle
    /\ keyReqs > 0
    /\ keyReqs' = keyReqs - 1
    /\ IF outcome = "rejected"
       THEN UNCHANGED <<apiKey, chatSession, nextHandle, micro>>
       ELSE /\ apiKey' = (apiKey \/ outcome = "selected")
            /\ \E createOk \in BOOLEAN :
                 /\ initializeChat(apiKey', createOk)
                 /\ micro' = [k |-> "key",
                              success |-> InitializeChatSucceeds(apiKey', createOk)]
    /\ UNCHANGED <<mounted, messages, inputValue, isLoading, isInitialized,
                   isContextLoading, appState, sends, nSends, fetches, nFetches,
                   ctxCalls, nCtx, fetchTimers, ctxTimers, unhandled, now,
                   returned, budget, editedAt, chartVars, patchVars>>

\* handleUpdateApiKey whose confirmation replaces the transcript instead of being appended
KeyResume_Replaces ==
    /\ micro.k = "key"
    /\ micro' = NoMicro
    /\ \E t \in ClockReadings(0) :
         /\ DateNow(t, 0)
         /\ messages' = <<Message(ToString(t), KeyUpdatedText, SYSTEM, t)>>
    /\ UNCHANGED <<mounted, inputValue, isLoading, isInitialized, isContextLoading,
                   appState, apiKey, chatSession, nextHandle, sends, nSends,
                   fetches, nFetches, keyReqs, ctxCalls, nCtx, fetchTimers,
                   ctxTimers, unhandled, returned, editedAt, chartVars, patchVars>>

\* handleUpdateApiKey after its last await
KeyResume ==
    /\ micro.k = "key"
    /\ micro' = NoMicro
    /\ \E t \in ClockReadings(0) :
         /\ DateNow(t, 0)
         /\ messages' = Append(messages, Message(ToString(t), KeyUpdatedText, SYSTEM, t))
    /\ UNCHANGED <<mounted, inputValue, isLoading, isInitialized, isContextLoading,
                   appState, apiKey, chatSession, nextHandle, sends, nSends,
                   fetches, nFetches, keyReqs, ctxCalls, nCtx, fetchTimers,
                   ctxTimers, unhandled, returned, editedAt, chartVars, patchVars>>

(***************************************************************************)
(* handleStateChange, from the controls of ControlPanel                    *)
(***************************************************************************)
handleStateChange(field, v) ==
    /\ Idle
    /\ Spend(1)
    /\ appState[field] # v
    /\ appState' = [appState EXCEPT ![field] = v]
    /\ editedAt' = (IF field = "puzzleContext" THEN nFetches ELSE editedAt)
    /\ fetchTimers' = FetchEffect(appState, appState', fetchTimers)
    /\ ctxTimers' = ContextEffect(appState, appState', isInitialized, isInitialized, ctxTimers)
    /\ UNCHANGED <<mounted, messages, inputValue, isLoading, isInitialized,
                   isContextLoading, apiKey, chatSession, nextHandle, micro, sends,
                   nSends, fetches, nFetches, keyReqs, ctxCalls, nCtx, unhandled,
                   now, returned, chartVars, patchVars>>

ChangeConfig ==
    \/ \E v \in Years : handleStateChange("year", v)
    \/ \E v \in Days : handleStateChange("day", v)
    \/ \E v \in Languages : handleStateChange("language", v)
    \/ \E v \in HintLevels : handleStateChange("hintLevel", v)

\* the textarea of ControlPanel, disabled while isLoadingContext
EditContext ==
    /\ ~isContextLoading
    /\ \E v \in TypedContexts : handleStateChange("puzzleContext", v)

(***************************************************************************)
(* fetchContext up to its await, for the year and day of its closure       *)
(***************************************************************************)
fetchContext(year, day) ==
    /\ isContextLoading' = TRUE
    /\ nFetches' = nFetches + 1
    /\ IF ~apiKey
       THEN /\ micro' = [k |-> "fetch", n |-> nFetches + 1, year |-> year, day |-> day,
                         text |-> "API Key missing"]
            /\ fetches' = fetches
       ELSE /\ fetches' = fetches \cup {[n |-> nFetches + 1, year |-> year, day |-> day]}
            /\ micro' = micro

\* fetchContext after its await: the text is stored, then ContextLoading is cleared
fetchContextResume(text) ==
    /\ appState' = [appState EXCEPT !.puzzleContext = text]
    /\ isContextLoading' = FALSE
    /\ ctxTimers' = ContextEffect(appState, appState', isInitialized, isInitialized, ctxTimers)

\* the 800 ms timer of the year/day effect fires
FetchTimerFire(t) ==
    /\ Idle
    /\ t \in fetchTimers
    /\ Spend(1)
    /\ fetchTimers' = fetchTimers \ {t}
    /\ fetchContext(t.year, t.day)
    /\ UNCHANGED <<mounted, messages, inputValue, isLoading, isInitialized,
                   appState, apiKey, chatSession, nextHandle, sends, nSends,
                   keyReqs, ctxCalls, nCtx, ctxTimers, unhandled, now, returned,
                   editedAt, chartVars, patchVars>>

\* the REFRESH button of ControlPanel, disabled while isLoadingContext
RefreshContext ==
    /\ Idle
    /\ ~isContextLoading
    /\ Spend(1)
    /\ fetchContext(appState.year, appState.day)
    /\ UNCHANGED <<mounted, messages, inputValue, isLoading, isInitialized,
                   appState, apiKey, chatSession, nextHandle, sends, nSends,
                   keyReqs, ctxCalls, nCtx, fetchTimers, ctxTimers, unhandled, now,
                   returned, editedAt, chartVars, patchVars>>

\* the backend call of fetchPuzzleFromAoC settles
FetchResolve(f, outcome) ==
    /\ Idle
    /\ f \in fetches
    /\ fetches' = fetches \ {f}
    /\ fetchContextResume(FetchText(f, outcome))
    /\ UNCHANGED <<mounted, messages, inputValue, isLoading, isInitialized, apiKey,
                   chatSession, nextHandle, micro, sends, nSends, nFetches,
                   keyReqs, ctxCalls, nCtx, fetchTimers, unhandled, now, returned,
                   budget, editedAt, chartVars, patchVars>>

\* fetchPuzzleFromAoC returned "API Key missing" without calling the backend
FetchResume ==
    /\ micro.k = "fetch"
    /\ micro' = NoMicro
    /\ fetchContextResume(micro.text)
    /\ UNCHANGED <<mounted, messages, inputValue, isLoading, isInitialized, apiKey,
                   chatSession, nextHandle, sends, nSends, fetches, nFetches,
                   keyReqs, ctxCalls, nCtx, fetchTimers, unhandled, now, returned,
                   budget, editedAt, chartVars, patchVars>>

(***************************************************************************)
(* updateSystemContext, called by the 1000 ms timer of the context effect  *)
(***************************************************************************)
UpdatePrompt(s) ==
    [year |-> s.year, day |-> s.day, language |-> s.language, hintLevel |-> s.hintLevel]

CtxTimerFire(t) ==
    /\ Idle
    /\ t \in ctxTimers
    /\ Spend(1)
    /\ ctxTimers' = ctxTimers \ {t}
    /\ nCtx' = nCtx + 1
    /\ IF chatSession = Null
       THEN ctxCalls' = ctxCalls
       ELSE ctxCalls' = ctxCalls \cup {[n |-> nCtx + 1, handle |-> chatSession,
                                       prompt |-> UpdatePrompt(t)]}
    /\ UNCHANGED <<mounted, messages, inputValue, isLoading, isInitialized,
                   isContextLoading, appState, apiKey, chatSession, nextHandle,
                   micro, sends, nSends, fetches, nFetches, keyReqs, fetchTimers,
                   unhandled, now, returned, editedAt, chartVars, patchVars>>

\* the backend call of updateSystemContext settles; nobody awaits its promise
CtxResolve(c, ok) ==
    /\ Idle
    /\ c \in ctxCalls
    /\ ctxCalls' = ctxCalls \ {c}
    /\ unhandled' = (unhandled \/ ~ok)
    /\ UNCHANGED <<mounted, messages, inputValue, isLoading, isInitialized,
                   isContextLoading, appState, apiKey, chatSession, nextHandle,
                   micro, sends, nSends, fetches, nFetches, keyReqs, nCtx,
                   fetchTimers, ctxTimers, now, returned, budget, editedAt,
                   chartVars, patchVars>>

(***************************************************************************)
(* geminiService called from outside App: the exported functions as their  *)
(* caller sees them.  returned holds, for each call that has settled, what *)
(* the caller got: a value (threw FALSE) or an error (threw TRUE), with    *)
(* the conditions of the call.                                             *)
(***************************************************************************)
NotInitialized == "Chat session not initialized"
ApiKeyMissing == "API Key missing"

\* process.env.API_KEY is set from outside (openSelectKey injects the key)
setApiKey ==
    /\ ~mounted
    /\ ~apiKey
    /\ Spend(1)
    /\ apiKey' = TRUE
    /\ UNCHANGED <<mounted, messages, inputValue, isLoading, isInitialized,
                   isContextLoading, appState, chatSession, nextHandle, micro,
                   sends, nSends, fetches, nFetches, keyReqs, ctxCalls, nCtx,
                   fetchTimers, ctxTimers, unhandled, now, returned, editedAt,
                   chartVars, patchVars>>

callInitializeChat(createOk) ==
    /\ ~mounted
    /\ Spend(1)
    /\ initializeChat(apiKey, createOk)
    /\ returned' = returned \cup
         {[op |-> "initializeChat", n |-> nextHandle, threw |-> FALSE,
           value |-> InitializeChatSucceeds(apiKey, createOk)]}
    /\ UNCHANGED <<mounted, messages, inputValue, isLoading, isInitialized,
                   isContextLoading, appState, apiKey, micro, sends, nSends,
                   fetches, nFetches, keyReqs, ctxCalls, nCtx, fetchTimers,
                   ctxTimers, unhandled, now, editedAt, chartVars, patchVars>>

\* sendMessageToGemini up to its await, or to its throw
callSendMessageToGemini(text) ==
    /\ ~mounted
    /\ Spend(1)
    /\ nSends' = nSends + 1
    /\ IF chatSession = Null
       THEN /\ returned' = returned \cup
                 {[op |-> "sendMessageToGemini", n |-> nSends + 1, live |-> FALSE,
                   backend |-> "none", threw |-> TRUE, value |-> NotInitialized]}
            /\ sends' = sends
       ELSE /\ sends' = sends \cup {[n |-> nSends + 1, handle |-> chatSession,
                                    text |-> text]}
            /\ returned' = returned
    /\ UNCHANGED <<mounted, messages, inputValue, isLoading, isInitialized,
                   isContextLoading, appState, apiKey, chatSession, nextHandle,
                   micro, fetches, nFetches, keyReqs, ctxCalls, nCtx, fetchTimers,
                   ctxTimers, unhandled, now, editedAt, chartVars, patchVars>>

\* chatSession.sendMessage settles: the try block returns, or the catch block does
settleSendMessageToGemini(s, outcome) ==
    /\ ~mounted
    /\ s \in sends
    /\ sends' = sends \ {s}
    /\ returned' = returned \cup
         {[op |-> "sendMessageToGemini", n |-> s.n, live |-> TRUE,
           backend |-> outcome, threw |-> FALSE, value |-> ReplyText(s, outcome)]}
    /\ UNCHANGED <<mounted, messages, inputValue, isLoading, isInitialized,
                   isContextLoading, appState, apiKey, chatSession, nextHandle,
                   micro, nSends, fetches, nFetches, keyReqs, ctxCalls, nCtx,
                   fetchTimers, ctxTimers, unhandled, now, budget, editedAt,
                   chartVars, patchVars>>

\* fetchPuzzleFromAoC up to its await, or to its early return
callFetchPuzzleFromAoC(year, day) ==
    /\ ~mounted
    /\ Spend(1)
    /\ nFetches' = nFetches + 1
    /\ IF ~apiKey
       THEN /\ returned' = returned \cup
                 {[op |-> "fetchPuzzleFromAoC", n |-> nFetches + 1, key |-> FALSE,
                   year |-> year, day |-> day, backend |-> "none", threw |-> FALSE,
                   value |-> ApiKeyMissing]}
            /\ fetches' = fetches
       ELSE /\ fetches' = fetches \cup {[n |-> nFetches + 1, year |-> year, day |-> day]}
            /\ returned' = returned
    /\ UNCHANGED <<mounted, messages, inputValue, isLoading, isInitialized,
                   isContextLoading, appState, apiKey, chatSession, nextHandle,
                   micro, sends, nSends, keyReqs, ctxCalls, nCtx, fetchTimers,
                   ctxTimers, unhandled, now, editedAt, chartVars, patchVars>>

\* generateContent settles: the try block returns, or the catch block does
settleFetchPuzzleFromAoC(f, outcome) ==
    /\ ~mounted
    /\ f \in fetches
    /\ fetches' = fetches \ {f}
    /\ returned' = returned \cup
         {[op |-> "fetchPuzzleFromAoC", n |-> f.n, key |-> TRUE, year |-> f.year,
           day |-> f.day, backend |-> outcome, threw |-> FALSE,
           value |-> FetchText(f, outcome)]}
    /\ UNCHANGED <<mounted, messages, inputValue, isLoading, isInitialized,
                   isContextLoading, appState, apiKey, chatSession, nextHandle,
                   micro, sends, nSends, nFetches, keyReqs, ctxCalls, nCtx,
                   fetchTimers, ctxTimers, unhandled, now, budget, editedAt,
                   chartVars, patchVars>>

(***************************************************************************)
(* The repair pass of renderChart on a source, a sequence of characters:   *)
(*   chart.replace(/\[([^"\]\n]*?[\(\),][^"\]\n]*?)\]/g, '["$1"]')         *)
(***************************************************************************)
Chars == {"[", "]", "(", ")", ",", "\"", "\n", "a"}

\* the class [^"\]\n] and the class [\(\),]
LabelChar(c) == c \notin {"\"", "]", "\n"}
Trigger(c) == c \in {"(", ")", ","}

\* the regular expression matches s[i..q]
MatchFromTo(s, i, q) ==
    /\ s[i] = "["
    /\ s[q] = "]"
    /\ \A k \in (i + 1) .. (q - 1) : LabelChar(s[k])
    /\ \E k \in (i + 1) .. (q - 1) : Trigger(s[k])

MatchAt(s, i) == \E q \in (i + 1) .. Len(s) : MatchFromTo(s, i, q)

MatchEnd(s, i) == CHOOSE q \in (i + 1) .. Len(s) : MatchFromTo(s, i, q)

\* a repair that wraps the label in parentheses instead of quotes
RECURSIVE PatchFrom_Parens(_, _)
PatchFrom_Parens(s, i) ==
    IF i > Len(s) THEN <<>>
    ELSE IF MatchAt(s, i)
         THEN <<"[", "(">> \o SubSeq(s, i + 1, MatchEnd(s, i) - 1) \o <<")", "]">>
              \o PatchFrom_Parens(s, MatchEnd(s, i) + 1)
         ELSE <<s[i]>> \o PatchFrom_Parens(s, i + 1)

\* replace with the g flag: leftmost match first, the scan goes on after the match
RECURSIVE PatchFrom(_, _)
PatchFrom(s, i) ==
    IF i > Len(s) THEN <<>>
    ELSE IF MatchAt(s, i)
         THEN <<"[", "\"">> \o SubSeq(s, i + 1, MatchEnd(s, i) - 1) \o <<"\"", "]">>
              \o PatchFrom(s, MatchEnd(s, i) + 1)
         ELSE <<s[i]>> \o PatchFrom(s, i + 1)

Patch(s) == PatchFrom(s, 1)

(***************************************************************************)
(* MermaidChart, one instance for each diagram block                       *)
(***************************************************************************)
Blocks == {1, 2}
Ids == {"mermaid-a", "mermaid-b"}
Charts == {<<"a", "[", ",", "]">>, <<"a">>}

NoSvg == [kind |-> "empty"]
Svg(source) == [kind |-> "svg", source |-> source]

\* the render effect runs for chart c of block b: the cleanup of the previous
\* run cancels its timer, and a timer is set
RenderEffect_NoCleanup(b, c, e, timers) ==
    timers \cup {[block |-> b, chart |-> c, epoch |-> e]}

RenderEffect(b, c, e, timers) ==
    {t \in timers : t.block # b} \cup {[block |-> b, chart |-> c, epoch |-> e]}

\* the error view showing patchedChart in place of chart
ViewOf_Patched(err, processing, output, source) ==
    IF err THEN [view |-> "failed", source |-> Patch(source)]
    ELSE IF processing /\ output = NoSvg THEN [view |-> "loading"]
    ELSE [view |-> "ready", svg |-> output]

\* what the component shows for its state and its chart prop
ViewOf(err, processing, output, source) ==
    IF err THEN [view |-> "failed", source |-> source]
    ELSE IF processing /\ output = NoSvg THEN [view |-> "loading"]
    ELSE [view |-> "ready", svg |-> output]

View(b) == ViewOf(error[b], isProcessing[b], svg[b], chart[b])

\* the message text changes: the chart prop of block b becomes c
UpdateChart(b, c) ==
    /\ budgetUpdate > 0
    /\ budgetUpdate' = budgetUpdate - 1
    /\ c # chart[b]
    /\ chart' = [chart EXCEPT ![b] = c]
    /\ epoch' = [epoch EXCEPT ![b] = @ + 1]
    /\ renderTimers' = RenderEffect(b, c, epoch[b] + 1, renderTimers)
    /\ UNCHANGED <<svg, error, isProcessing, idRef, renders, nRenders, usedIds,
                   budgetRetry, coordVars, patchVars>>

\* the 600 ms timer fires: renderChart up to its await
RenderTimerFire(t) ==
    /\ t \in renderTimers
    /\ renderTimers' = renderTimers \ {t}
    /\ error' = [error EXCEPT ![t.block] = FALSE]
    /\ isProcessing' = [isProcessing EXCEPT ![t.block] = TRUE]
    /\ renders' = renders \cup {[n |-> nRenders + 1, block |-> t.block,
                                 id |-> idRef[t.block], source |-> Patch(t.chart),
                                 chart |-> t.chart, epoch |-> t.epoch]}
    /\ nRenders' = nRenders + 1
    /\ usedIds' = usedIds \cup {idRef[t.block]}
    /\ UNCHANGED <<chart, svg, idRef, epoch, budgetUpdate, budgetRetry, coordVars,
                   patchVars>>

\* mermaid.render settles and its outcome is applied whatever the chart prop is by then
RenderResolve_NoMountedCheck(r, ok) ==
    /\ r \in renders
    /\ renders' = renders \ {r}
    /\ IF ok
       THEN /\ svg' = [svg EXCEPT ![r.block] = Svg(r.source)]
            /\ isProcessing' = [isProcessing EXCEPT ![r.block] = FALSE]
            /\ error' = error
       ELSE /\ error' = [error EXCEPT ![r.block] = TRUE]
            /\ isProcessing' = [isProcessing EXCEPT ![r.block] = FALSE]
            /\ svg' = svg
    /\ UNCHANGED <<chart, idRef, epoch, renderTimers, nRenders, usedIds,
                   budgetUpdate, budgetRetry, coordVars, patchVars>>

\* mermaid.render settles; isMounted of the closure is true while its run of
\* the effect is the current one
RenderResolve(r, ok) ==
    /\ r \in renders
    /\ renders' = renders \ {r}
    /\ IF r.epoch = epoch[r.block]
       THEN IF ok
            THEN /\ svg' = [svg EXCEPT ![r.block] = Svg(r.source)]
                 /\ isProcessing' = [isProcessing EXCEPT ![r.block] = FALSE]
                 /\ error' = error
            ELSE /\ error' = [error EXCEPT ![r.block] = TRUE]
                 /\ isProcessing' = [isProcessing EXCEPT ![r.block] = FALSE]
                 /\ svg' = svg
       ELSE UNCHANGED <<svg, error, isProcessing>>
    /\ UNCHANGED <<chart, idRef, epoch, renderTimers, nRenders, usedIds,
                   budgetUpdate, budgetRetry, coordVars, patchVars>>

\* the Retry button of the error view
Retry(b) ==
    /\ error[b]
    /\ budgetRetry > 0
    /\ budgetRetry' = budgetRetry - 1
    /\ error' = [error EXCEPT ![b] = FALSE]
    /\ UNCHANGED <<chart, svg, isProcessing, idRef, epoch, renderTimers, renders,
                   nRenders, usedIds, budgetUpdate, coordVars, patchVars>>

\* the repair pass run on src
RunPatch ==
    /\ ~patched
    /\ out' = Patch(src)
    /\ patched' = TRUE
    /\ UNCHANGED <<src, coordVars, chartVars>>

(***************************************************************************)
(* Initial states                                                          *)
(***************************************************************************)
\* the diagram blocks right after mount: the render effect has run once
ChartInit(update, retry) ==
    /\ chart \in [Blocks -> Charts]
    /\ svg = [b \in Blocks |-> NoSvg]
    /\ error = [b \in Blocks |-> FALSE]
    /\ isProcessing = [b \in Blocks |-> TRUE]
    /\ idRef \in [Blocks -> Ids]
    /\ epoch = [b \in Blocks |-> 0]
    /\ renderTimers = {[block |-> b, chart |-> chart[b], epoch |-> 0] : b \in Blocks}
    /\ renders = {}
    /\ nRenders = 0
    /\ usedIds = {}
    /\ budgetUpdate = update
    /\ budgetRetry = retry

\* no diagram block in the transcript
NoChart ==
    /\ chart = << >>
    /\ svg = << >>
    /\ error = << >>
    /\ isProcessing = << >>
    /\ idRef = << >>
    /\ epoch = << >>
    /\ renderTimers = {}
    /\ renders = {}
    /\ nRenders = 0
    /\ usedIds = {}
    /\ budgetUpdate = 0
    /\ budgetRetry = 0

Sources == UNION {[1 .. n -> Chars] : n \in 0 .. MaxLen}

\* sources that are one quoted label ["text"], alone or after a node name
LabelTexts == UNION {[1 .. n -> Chars \ {"\""}] : n \in 0 .. MaxLen}

QuotedSources ==
    {pre \o <<"[", "\"">> \o t \o <<"\"", "]">> : pre \in {<< >>, <<"a">>}, t \in LabelTexts}

PatchInit ==
    /\ src \in Sources \cup QuotedSources
    /\ out = << >>
    /\ patched = FALSE

NoPatch ==
    /\ src = << >>
    /\ out = << >>
    /\ patched = FALSE

\* the App component not running
NoCoord == CoordInit(0) /\ apiKey = FALSE

(***************************************************************************)
(* The coordinator                                                         *)
(***************************************************************************)
\* the microtask queue runs: the pending continuation resumes
RunMicrotask ==
    CASE micro.k = "init" -> InitResume
      [] micro.k = "sendThrow" -> SendThrowResume
      [] micro.k = "reset" -> ResetResume
      [] micro.k = "key" -> KeyResume
      [] micro.k = "fetch" -> FetchResume
      [] OTHER -> FALSE

CoordNext ==
    \/ Mount
    \/ RunMicrotask
    \/ \E input \in Inputs : handleSendMessage(input)
    \/ \E s \in sends, o \in SendOutcomes : SendResolve(s, o)
    \/ handleResetChat
    \/ \E hasAistudio \in BOOLEAN : handleUpdateApiKey(hasAistudio)
    \/ \E o \in KeyOutcomes : KeyResolve(o)
    \/ ChangeConfig
    \/ EditContext
    \/ \E t \in fetchTimers : FetchTimerFire(t)
    \/ RefreshContext
    \/ \E f \in fetches, o \in FetchOutcomes : FetchResolve(f, o)
    \/ \E t \in ctxTimers : CtxTimerFire(t)
    \/ \E c \in ctxCalls, ok \in BOOLEAN : CtxResolve(c, ok)

Init ==
    /\ CoordInit(MaxOps)
    /\ NoChart
    /\ NoPatch

Next == CoordNext

Spec == Init /\ [][Next]_vars

(***************************************************************************)
(* The coordinator under fair scheduling: a timer that is pending fires, a *)
(* microtask runs, a backend call settles; the user acts MaxLiveOps times  *)
(* at most                                                                 *)
(***************************************************************************)
\* the 800 ms timer of the year/day effect is due and its callback runs
FetchTimerDue(t) ==
    /\ Idle
    /\ t \in fetchTimers
    /\ fetchTimers' = fetchTimers \ {t}
    /\ fetchContext(t.year, t.day)
    /\ UNCHANGED <<mounted, messages, inputValue, isLoading, isInitialized,
                   appState, apiKey, chatSession, nextHandle, sends, nSends,
                   keyReqs, ctxCalls, nCtx, ctxTimers, unhandled, now, returned,
                   budget, editedAt, chartVars, patchVars>>

\* the 1000 ms timer of the context effect is due and its callback runs
CtxTimerDue(t) ==
    /\ Idle
    /\ t \in ctxTimers
    /\ ctxTimers' = ctxTimers \ {t}
    /\ nCtx' = nCtx + 1
    /\ IF chatSession = Null
       THEN ctxCalls' = ctxCalls
       ELSE ctxCalls' = ctxCalls \cup {[n |-> nCtx + 1, handle |-> chatSession,
                                       prompt |-> UpdatePrompt(t)]}
    /\ UNCHANGED <<mounted, messages, inputValue, isLoading, isInitialized,
                   isContextLoading, appState, apiKey, chatSession, nextHandle,
                   micro, sends, nSends, fetches, nFetches, keyReqs, fetchTimers,
                   unhandled, now, returned, budget, editedAt, chartVars,
                   patchVars>>

TimersDue ==
    \/ \E t \in fetchTimers : FetchTimerDue(t)
    \/ \E t \in ctxTimers : CtxTimerDue(t)

CallsSettle ==
    \/ \E s \in sends, o \in SendOutcomes : SendResolve(s, o)
    \/ \E f \in fetches, o \in FetchOutcomes : FetchResolve(f, o)
    \/ \E c \in ctxCalls, ok \in BOOLEAN : CtxResolve(c, ok)

UserActs ==
    \/ \E input \in Inputs : handleSendMessage(input)
    \/ handleResetChat
    \/ \E hasAistudio \in BOOLEAN : handleUpdateApiKey(hasAistudio)
    \/ \E o \in KeyOutcomes : KeyResolve(o)
    \/ ChangeConfig
    \/ EditContext
    \/ RefreshContext

LiveNext ==
    \/ Mount
    \/ RunMicrotask
    \/ TimersDue
    \/ CallsSettle
    \/ UserActs

LiveInit ==
    /\ CoordInit(MaxLiveOps)
    /\ NoChart
    /\ NoPatch

Fairness ==
    /\ WF_vars(Mount)
    /\ WF_vars(RunMicrotask)
    /\ WF_vars(TimersDue)
    /\ WF_vars(CallsSettle)

LiveSpec == LiveInit /\ [][LiveNext]_vars /\ Fairness

(***************************************************************************)
(* The gateway on its own                                                  *)
(***************************************************************************)
GatewayNext ==
    \/ setApiKey
    \/ \E createOk \in BOOLEAN : callInitializeChat(createOk)
    \/ \E text \in Inputs \ {"", " "} : callSendMessageToGemini(text)
    \/ \E s \in sends, o \in SendOutcomes : settleSendMessageToGemini(s, o)
    \/ \E year \in Years, day \in Days : callFetchPuzzleFromAoC(year, day)
    \/ \E f \in fetches, o \in FetchOutcomes : settleFetchPuzzleFromAoC(f, o)

GatewayInit ==
    /\ CoordInit(MaxCalls)
    /\ NoChart
    /\ NoPatch

GatewaySpec == GatewayInit /\ [][GatewayNext]_vars

(***************************************************************************)
(* The diagram blocks                                                      *)
(***************************************************************************)
ChartNext ==
    \/ \E b \in Blocks, c \in Charts : UpdateChart(b, c)
    \/ \E t \in renderTimers : RenderTimerFire(t)
    \/ \E r \in renders, ok \in BOOLEAN : RenderResolve(r, ok)
    \/ \E b \in Blocks : Retry(b)

ChartSpecInit ==
    /\ NoCoord
    /\ ChartInit(MaxUpdate, MaxRetry)
    /\ NoPatch

ChartSpec == ChartSpecInit /\ [][ChartNext]_vars

(***************************************************************************)
(* The repair pass                                                         *)
(***************************************************************************)
PatchNext == RunPatch

PatchSpecInit ==
    /\ NoCoord
    /\ NoChart
    /\ PatchInit

PatchSpec == PatchSpecInit /\ [][PatchNext]_vars

(***************************************************************************)
(* Properties of the coordinator                                           *)
(***************************************************************************)
\* C1: at most one sendMessageToGemini call issued by handleSendMessage is in
\* flight (issued and not yet resolved) in every reachable state.
CE_C1_OneSendInFlight == Cardinality(sends) <= 1

\* the fetchPuzzleFromAoC calls a step makes
NewFetchCalls ==
    (fetches' \ fetches)
    \cup (IF micro'.k = "fetch" /\ micro.k # "fetch"
          THEN {[n |-> micro'.n, year |-> micro'.year, day |-> micro'.day]}
          ELSE {})

\* C2: when a fetchPuzzleFromAoC call started for (year, day) resolves after the
\* configuration's year or day has changed to a different value, puzzleContext
\* is left as it was.
CE_C2_StaleFetchNotWritten ==
    [][\A f \in fetches :
         (f \notin fetches' /\ (f.year # appState.year \/ f.day # appState.day))
         => appState'.puzzleContext = appState.puzzleContext]_vars

\* C3: a call of handleSendMessage while Busy, while not Ready, or with empty or
\* whitespace-only input changes neither the transcript nor Busy and issues no
\* gateway call; and no step at all issues a send while Busy or while not Ready.
T_C3_RejectedSubmitChangesNothing ==
    [][/\ \A input \in Inputs :
            (handleSendMessage(input)
             /\ (isLoading \/ ~isInitialized \/ input \in {"", " "}))
            => UNCHANGED <<messages, isLoading, sends, nSends, micro>>
       /\ (isLoading \/ ~isInitialized) => (nSends' = nSends /\ sends' \subseteq sends)]_vars

\* a submit of "hi" returned early (the box still holds the text) while a send is
\* in flight and Busy is set
W_C3_SubmitWhileBusy ==
    /\ inputValue = "hi"
    /\ isLoading
    /\ isInitialized
    /\ Cardinality(sends) = 1
    /\ Len(messages) = 2
    /\ messages[2].sender = USER

\* C4: a reset replaces the live session handle by a new one, whatever the
\* outcome of its createSession call, and when it has completed the transcript
\* is exactly one AI message.
CE_C4_ResetNewHandle ==
    [][/\ (micro.k = "none" /\ micro'.k = "reset")
          => (chatSession' # Null /\ chatSession' # chatSession)
       /\ (micro.k = "reset" /\ micro'.k = "none")
          => (Len(messages') = 1 /\ messages'[1].sender = AI)]_vars

\* C5: when a send made against a handle that has since been replaced resolves,
\* no message is appended to the transcript.
CE_C5_StaleReplyAbandoned ==
    [][\A s \in sends :
         (s \notin sends' /\ s.handle # chatSession) => messages' = messages]_vars

\* C6: a change of year or day cancels the pending 800 ms timer and sets one for
\* the new values without calling fetchPuzzleFromAoC; the timer, when it fires,
\* makes exactly one call, with the year and day of the configuration.
T_C6_BurstOneFetch ==
    [][/\ fetchTimers' \subseteq {[year |-> appState'.year, day |-> appState'.day]}
       /\ (appState'.year # appState.year \/ appState'.day # appState.day)
          => (/\ fetchTimers' = {[year |-> appState'.year, day |-> appState'.day]}
              /\ nFetches' = nFetches
              /\ NewFetchCalls = {})
       /\ (fetchTimers # {} /\ fetchTimers' = {})
          => (/\ nFetches' = nFetches + 1
              /\ NewFetchCalls = {[n |-> nFetches + 1, year |-> appState.year,
                                   day |-> appState.day]})]_vars

\* the first fetchPuzzleFromAoC call ever made carries a year and a day that both
\* differ from the initial ones: two changes came before the timer fired
W_C6_BurstThenFetch ==
    fetches = {[n |-> 1, year |-> "2024", day |-> "10"]}

\* C12: when the initializeChat call of the mount succeeds, the coordinator
\* becomes Ready and the transcript is exactly one message, sent by the AI, whose
\* text names the year, the day and the language of the configuration.
T_C12_WelcomeOnSuccess ==
    [][(micro.k = "init" /\ micro.success)
       => /\ isInitialized'
          /\ Len(messages') = 1
          /\ messages'[1].sender = AI
          /\ messages'[1].text.kind = "welcome"
          /\ messages'[1].text.year = appState'.year
          /\ messages'[1].text.day = appState'.day
          /\ messages'[1].text.language = appState'.language]_vars

\* the init effect has succeeded and nothing else has touched the transcript
W_C12_Welcomed ==
    /\ isInitialized
    /\ chatSession # Null
    /\ Len(messages) = 1
    /\ messages[1].id = "init"
    /\ messages[1].text.language = "Python"

\* the initializeChat call of the mount has failed
Failed == mounted /\ micro.k # "init" /\ ~isInitialized

\* the step calls a function of geminiService
GatewayCallMade ==
    \/ nSends' # nSends
    \/ nFetches' # nFetches
    \/ nCtx' # nCtx
    \/ nextHandle' # nextHandle

\* the step is a handler the user invokes
UserStep ==
    \/ \E input \in Inputs : handleSendMessage(input)
    \/ handleResetChat
    \/ \E hasAistudio \in BOOLEAN : handleUpdateApiKey(hasAistudio)
    \/ \E o \in KeyOutcomes : KeyResolve(o)
    \/ ChangeConfig
    \/ EditContext
    \/ RefreshContext

\* C13: when the initializeChat call of the mount fails, the transcript is
\* exactly one system message and the coordinator is not Ready; then, as long as
\* the user has invoked nothing (the budget is untouched), no step calls the
\* gateway but a handler the user invokes.
CE_C13_FailedIsQuiet ==
    [][/\ (micro.k = "init" /\ ~micro.success)
          => (/\ ~isInitialized'
              /\ Len(messages') = 1
              /\ messages'[1].sender = SYSTEM)
       /\ (Failed /\ budget = MaxOps /\ GatewayCallMade) => UserStep]_vars

\* C14: after a failed mount, once a credential update has made a session (the
\* last message is its confirmation and a handle is live), a submit of "hi"
\* while not Busy appends the user message and sends on the live handle.
CE_C14_KeyUpdateUnblocks ==
    [][(/\ handleSendMessage("hi")
        /\ ~isLoading
        /\ chatSession # Null
        /\ Len(messages) >= 2
        /\ messages[1].id = "error"
        /\ messages[Len(messages)].text = KeyUpdatedText)
       => /\ Len(messages') = Len(messages) + 1
          /\ messages'[Len(messages')].sender = USER
          /\ \E s \in sends' \ sends : s.handle = chatSession]_vars

\* C15: the credential update appends its confirmation when its initializeChat
\* call has succeeded and leaves the transcript unchanged when it has failed.
CE_C15_ConfirmOnlyOnSuccess ==
    [][(micro.k = "key" /\ micro'.k = "none")
       => IF micro.success
          THEN /\ Len(messages') = Len(messages) + 1
               /\ messages'[Len(messages')].text = KeyUpdatedText
               /\ messages'[Len(messages')].sender = SYSTEM
          ELSE messages' = messages]_vars

\* C16: no updateSystemContext call ends as a rejected promise nobody handles.
CE_C16_ContextFailureSwallowed == ~unhandled

\* C19: when the sendMessageToGemini call of an accepted submit settles, Busy
\* is cleared, whether the call returns or throws; when it throws, the
\* transcript stays as it was.
T_C19_BusyCleared ==
    [][/\ (sends' # sends /\ sends' \subseteq sends) => ~isLoading'
       /\ micro.k = "sendThrow" => (~isLoading' /\ messages' = messages)]_vars

\* the send of the one accepted submit has settled and its reply is in the transcript
W_C19_SendSettled ==
    /\ nSends = 1
    /\ sends = {}
    /\ ~isLoading
    /\ Len(messages) = 3
    /\ messages[2].sender = USER
    /\ messages[3].sender = AI

\* the fields of the configuration that updateSystemContext sends
PromptFieldsChange ==
    \/ appState'.hintLevel # appState.hintLevel
    \/ appState'.language # appState.language
    \/ appState'.year # appState.year
    \/ appState'.day # appState.day

\* C20: while Ready, a change of hintLevel, language, year or day cancels the
\* pending 1000 ms timer and sets one for the new configuration without calling
\* updateSystemContext; the timer, when it fires, makes exactly one call, with
\* the configuration as it is; while not Ready no call is made and no timer set.
T_C20_BurstOneContextUpdate ==
    [][/\ ctxTimers' \subseteq (IF isInitialized' THEN {appState'} ELSE {})
       /\ (isInitialized /\ PromptFieldsChange)
          => (/\ ctxTimers' = {appState'}
              /\ nCtx' = nCtx
              /\ ctxCalls' = ctxCalls)
       /\ (ctxTimers # {} /\ ctxTimers' = {})
          => (/\ nCtx' = nCtx + 1
              /\ ctxCalls' = ctxCalls \cup
                   {[n |-> nCtx + 1, handle |-> chatSession,
                     prompt |-> [year |-> appState.year, day |-> appState.day,
                                 language |-> appState.language,
                                 hintLevel |-> appState.hintLevel]]})
       /\ ~isInitialized => (nCtx' = nCtx /\ ctxCalls' = ctxCalls)]_vars

\* the first updateSystemContext call ever made carries a language and a hint
\* level that both differ from the initial ones: two changes came before the
\* timer fired
W_C20_BurstThenContextUpdate ==
    \E c \in ctxCalls :
        /\ c.n = 1
        /\ c.prompt.language = "Rust"
        /\ c.prompt.hintLevel = "Vague Hint"

\* C21: once Ready, a 1000 ms timer of the context effect, whose firing is the
\* only caller of updateSystemContext, is set where none was pending only by a
\* step that changes hintLevel, language, year or day: not by an edit of
\* puzzleContext and not by a fetch that fills it.
CE_C21_ContextTimerOnlyOnFieldChange ==
    [][(isInitialized /\ ctxTimers = {} /\ ctxTimers' # {}) => PromptFieldsChange]_vars

\* C22: a text the user typed into the Puzzle Context textarea is not replaced
\* when a fetchPuzzleFromAoC call that was started before the text was typed
\* settles.
CE_C22_TypedContextSurvivesOlderFetch ==
    [][\A f \in fetches \ fetches' :
          (appState.puzzleContext \in TypedContexts /\ f.n <= editedAt)
             => appState'.puzzleContext = appState.puzzleContext]_vars

\* C23: Busy implies Ready in every reachable state: no action, reset and
\* credential update included, sets isLoading while isInitialized is false.
CE_C23_BusyOnlyWhileReady ==
    isLoading => isInitialized

\* C24: the messages of the transcript have pairwise distinct ids, whatever
\* non-decreasing readings Date.now() returns.
CE_C24_DistinctIds ==
    \A i, j \in 1..Len(messages) : messages[i].id = messages[j].id => i = j

\* C25: a step that is neither part of a reset nor the seeding after mount
\* leaves the transcript unchanged or appends exactly one message to it: the
\* messages already there keep their content and their order.
T_C25_AppendOnly ==
    [][(micro.k \notin {"init", "reset"} /\ micro'.k # "reset")
          => \/ messages' = messages
             \/ /\ Len(messages') = Len(messages) + 1
                /\ SubSeq(messages', 1, Len(messages)) = messages]_vars

W_C25_AppendedTwice ==
    /\ Len(messages) = 3
    /\ messages[1].id = "init"
    /\ messages[2].sender = USER
    /\ messages[3].sender = SYSTEM

\* C27: whenever the coordinator is Ready the gateway holds a session, so
\* sendMessageToGemini, which handleSendMessage calls only when Ready, never
\* throws "Chat session not initialized".
T_C27_ReadyHasSession ==
    /\ isInitialized => chatSession # Null
    /\ micro.k # "sendThrow"

W_C27_SendWhileReady ==
    /\ isInitialized
    /\ chatSession # Null
    /\ \E s \in sends : s.handle = chatSession

\* C28: isContextLoading is true whenever a fetchPuzzleFromAoC call started by
\* fetchContext is in flight, also when two such calls overlap.
CE_C28_LoadingWhileFetchInFlight ==
    fetches # {} => isContextLoading

\* neither handleResetChat nor handleUpdateApiKey has written to the transcript:
\* it still starts with the message the init effect seeded and holds no
\* confirmation of a key update
NoResetNoKeyUpdate ==
    /\ messages # <<>>
    /\ messages[1].id \in {"init", "error"}
    /\ \A i \in 1..Len(messages) : messages[i].text # [kind |-> "keyUpdated"]

\* C31: without a reset or a credential update the transcript after the seed
\* message alternates user and AI messages, starting with a user message, and
\* the AI message after the k-th user message is what sendMessageToGemini
\* returned for the k-th send.
T_C31_Alternation ==
    NoResetNoKeyUpdate =>
       \A i \in 2..Len(messages) :
          IF i % 2 = 0
          THEN /\ messages[i].sender = USER
               /\ messages[i].text.kind = "user"
          ELSE /\ messages[i].sender = AI
               /\ messages[i].text.kind \in {"reply", "noResponse", "commError"}
               /\ messages[i].text.kind = "reply" => messages[i].text.send = i \div 2

W_C31_TwoExchanges ==
    /\ NoResetNoKeyUpdate
    /\ Len(messages) = 5
    /\ messages[5].text.kind = "reply"

\* no timer pending, no call in flight, no continuation waiting, Busy and
\* ContextLoading false
Quiescent ==
    /\ mounted
    /\ micro = NoMicro
    /\ fetchTimers = {}
    /\ ctxTimers = {}
    /\ sends = {}
    /\ fetches = {}
    /\ ctxCalls = {}
    /\ ~isLoading
    /\ ~isContextLoading

\* C33: when every pending timer fires, every backend call settles and the
\* user acts finitely often, the coordinator reaches a quiescent state and
\* stays in it, whatever sends, resets, configuration changes, refreshes and
\* resolutions came before.
T_C33_Quiescence == <>[]Quiescent

W_C33_QuietAfterWork ==
    /\ Quiescent
    /\ nSends >= 1
    /\ nFetches >= 2
    /\ nCtx >= 1

(***************************************************************************)
(* Properties of the gateway                                               *)
(***************************************************************************)
\* C17: fetchPuzzleFromAoC never throws: without a key it returns "API Key
\* missing" and calls no backend; with a key it returns the backend's text, a
\* fixed text when that is empty, a fixed text when the backend call fails.
T_C17_FetchNeverThrows ==
    \A r \in returned :
        r.op = "fetchPuzzleFromAoC"
        => /\ ~r.threw
           /\ ~r.key => (r.backend = "none" /\ r.value = "API Key missing")
           /\ r.key => r.backend \in {"text", "empty", "error"}
           /\ r.backend = "text" => r.value = Summary(r.year, r.day)
           /\ r.backend = "empty" => r.value = "Could not retrieve puzzle description."
           /\ r.backend = "error" => r.value = "Error fetching puzzle description from AoC."

\* a call without a key and a call whose backend call failed have both returned
W_C17_MissingKeyAndBackendError ==
    /\ \E r \in returned : r.op = "fetchPuzzleFromAoC" /\ ~r.key
    /\ \E r \in returned : r.op = "fetchPuzzleFromAoC" /\ r.backend = "error"

\* C18: sendMessageToGemini with no live handle throws "Chat session not
\* initialized" and calls no backend; with a live handle it never throws, and
\* returns the fixed error text when the backend call fails.
T_C18_SendThrowsOnlyWithoutHandle ==
    \A r \in returned :
        r.op = "sendMessageToGemini"
        => /\ ~r.live => (/\ r.threw
                          /\ r.value = "Chat session not initialized"
                          /\ r.backend = "none")
           /\ r.live => (/\ ~r.threw
                         /\ r.backend \in {"text", "empty", "error"}
                         /\ r.backend = "error" => r.value = [kind |-> "commError"])

\* a call without a handle has thrown and a call whose backend call failed has returned
W_C18_ThrownAndBackendError ==
    /\ \E r \in returned : r.op = "sendMessageToGemini" /\ r.threw
    /\ \E r \in returned : r.op = "sendMessageToGemini" /\ r.backend = "error"

(***************************************************************************)
(* Properties of the diagram blocks                                        *)
(***************************************************************************)
\* C7: an update of a block's source cancels the block's pending 600 ms timer
\* and sets one for the new source without calling mermaid.render; the timer,
\* when it fires, makes exactly one call, with the patched current source.
T_C7_BurstOneRender ==
    [][/\ \A t \in renderTimers' : t.chart = chart'[t.block] /\ t.epoch = epoch'[t.block]
       /\ \A b \in Blocks :
            /\ Cardinality({t \in renderTimers' : t.block = b}) <= 1
            /\ chart'[b] # chart[b]
               => (/\ \E t \in renderTimers' : t.block = b
                   /\ nRenders' = nRenders
                   /\ renders' = renders)
            /\ ((\E t \in renderTimers : t.block = b) /\ ~(\E t \in renderTimers' : t.block = b))
               => (/\ nRenders' = nRenders + 1
                   /\ \E r \in renders' \ renders :
                        /\ renders' = renders \cup {r}
                        /\ r.block = b
                        /\ r.source = Patch(chart[b]))]_vars

\* the first mermaid.render call ever made is for the third source of its block
W_C7_BurstThenRender ==
    \E r \in renders :
        /\ r.n = 1
        /\ r.epoch = 2
        /\ r.chart = chart[r.block]
        /\ r.source = Patch(chart[r.block])

\* C8: a click on Retry in the failed state starts a render attempt on the
\* current source: after it a render timer of the block is pending (mermaid.render
\* is called by a timer of the render effect and by nothing else).
CE_C8_RetryRenders ==
    [][\A b \in Blocks :
         (error[b] /\ ~error'[b] /\ renders' = renders /\ chart' = chart)
         => \E t \in renderTimers' : t.block = b /\ t.chart = chart[b]]_vars

\* C9: when mermaid.render raises for the current source of a block, the block
\* shows the failed view with the source as received; the transcript and the
\* other blocks are unchanged.
T_C9_FailureShowsOriginal ==
    [][\A b \in Blocks :
         (~error[b] /\ error'[b])
         => /\ ViewOf(error'[b], isProcessing'[b], svg'[b], chart'[b])
               = [view |-> "failed", source |-> chart[b]]
            /\ \E r \in renders \ renders' : r.block = b /\ r.chart = chart[b]
            /\ messages' = messages
            /\ \A o \in Blocks \ {b} :
                 /\ chart'[o] = chart[o]
                 /\ svg'[o] = svg[o]
                 /\ error'[o] = error[o]
                 /\ isProcessing'[o] = isProcessing[o]]_vars

\* a block whose repair pass changes the source is in the failed state
W_C9_FailedShowsOriginal ==
    \E b \in Blocks :
        /\ error[b]
        /\ Patch(chart[b]) # chart[b]
        /\ View(b) = [view |-> "failed", source |-> chart[b]]

\* C26: every mermaid.render call passes an identifier that no earlier call
\* passed, earlier renders of the same block included; stated for blocks whose
\* idRef values differ, so that only renders of one block can share one.
CE_C26_FreshRenderId ==
    [][(\A a, b \in Blocks : idRef[a] = idRef[b] => a = b)
          => \A r \in renders' \ renders : r.id \notin usedIds]_vars

\* C29: when mermaid.render settles for a block whose chart prop is no longer
\* the text the attempt was started for, neither the output nor the failed
\* flag of any block changes.
T_C29_StaleOutcomeDropped ==
    [][\A r \in renders \ renders' :
          r.chart # chart[r.block] => (svg' = svg /\ error' = error)]_vars

\* block b was updated after its only render call was made, that call has
\* settled, and b shows neither an output nor a failure
W_C29_StaleRenderSettled ==
    \E b, o \in Blocks :
       /\ b # o
       /\ nRenders = 1
       /\ renders = {}
       /\ [block |-> o, chart |-> chart[o], epoch |-> 0] \in renderTimers
       /\ [block |-> b, chart |-> chart[b], epoch |-> 1] \in renderTimers
       /\ svg[b] = NoSvg
       /\ ~error[b]

\* C30: a block shows "Diagram Ready" only when it holds the output of a
\* successful render; in particular not with the empty output.
CE_C30_ReadyHasOutput ==
    \A b \in Blocks : View(b).view = "ready" => svg[b] # NoSvg

(***************************************************************************)
(* Properties of the repair pass                                           *)
(***************************************************************************)
\* a bracket group of s on one line: s[i] = "[", s[q] the next "]", no bracket
\* and no line break between them
Group(s, i, q) ==
    /\ i < q
    /\ s[i] = "["
    /\ s[q] = "]"
    /\ \A k \in (i + 1) .. (q - 1) : s[k] \notin {"[", "]", "\n"}

\* a group to quote: its content has no double quote and has a comma or a parenthesis
Quotable(s, i, q) ==
    /\ Group(s, i, q)
    /\ \A k \in (i + 1) .. (q - 1) : s[k] # "\""
    /\ \E k \in (i + 1) .. (q - 1) : s[k] \in {"(", ")", ","}

\* s with the content of every group to quote wrapped in double quotes
RECURSIVE QuoteGroups(_, _)
QuoteGroups(s, i) ==
    IF i > Len(s) THEN << >>
    ELSE IF \E q \in (i + 1) .. Len(s) : Quotable(s, i, q)
         THEN LET q == CHOOSE q \in (i + 1) .. Len(s) : Quotable(s, i, q)
              IN  <<"[", "\"">> \o SubSeq(s, i + 1, q - 1) \o <<"\"", "]">>
                  \o QuoteGroups(s, q + 1)
         ELSE <<s[i]>> \o QuoteGroups(s, i + 1)

\* C10: the repair pass returns the source with the content of every bracket
\* group that has no double quote and has a comma or a parenthesis wrapped in
\* double quotes, and every other character unchanged and in the same order.
CE_C10_GroupsQuoted == patched => out = QuoteGroups(src, 1)

\* every bracketed label of s from position i on is ["text"], text without a
\* double quote, and no other bracket or double quote occurs
RECURSIVE AlreadyQuoted(_, _)
AlreadyQuoted(s, i) ==
    IF i > Len(s) THEN TRUE
    ELSE IF s[i] = "["
         THEN /\ i + 1 <= Len(s)
              /\ s[i + 1] = "\""
              /\ \E j \in (i + 2) .. (Len(s) - 1) :
                    /\ s[j] = "\""
                    /\ \A k \in (i + 2) .. (j - 1) : s[k] # "\""
                    /\ s[j + 1] = "]"
                    /\ AlreadyQuoted(s, j + 2)
         ELSE s[i] \notin {"]", "\""} /\ AlreadyQuoted(s, i + 1)

\* C11: the repair pass returns unchanged every source whose bracketed labels
\* are all enclosed in double quotes, whatever the text of the labels.
CE_C11_QuotedUnchanged == (patched /\ AlreadyQuoted(src, 1)) => out = src

\* C32: the repair pass is idempotent: run on its own output, it returns that
\* output unchanged.
T_C32_PatchIdempotent ==
    patched => Patch(out) = out

W_C32_PatchRewrote ==
    /\ patched
    /\ out # src
    /\ Patch(out) = out

====
